---- MODULE Spec2Model ----
(***************************************************************************)
(* Model of compare_csv.py: a linear script that checks that two CSV files *)
(* exist, parses them, aligns their common columns, keeps the columns that *)
(* are numeric in the first table, and then pages through those columns in *)
(* a matplotlib window with Previous / Next / Quit buttons.                *)
(*                                                                         *)
(* Floating point statistics are kept as exact fractions <<num, den>>; the *)
(* standard deviation is represented by its square.  The ":.4f" formatting *)
(* of the caption is not modelled: the caption holds the values that are   *)
(* handed to the format string.                                            *)
(***************************************************************************)
EXTENDS Integers, Sequences, FiniteSets, TLC

\* ------------------------------------------------------------------ bounds
MaxCols == 3
MaxRows == 3
MaxVal == 2

AllNames == <<"a", "b", "c", "d", "e", "f">>
Names == {AllNames[i] : i \in 1..MaxCols}
Vals == 0..MaxVal

\* ------------------------------------------------------- generic helpers
Range(s) == {s[i] : i \in 1..Len(s)}

RECURSIVE SumSeq(_)
SumSeq(s) == IF s = <<>> THEN 0 ELSE Head(s) + SumSeq(Tail(s))

RECURSIVE MaxSeq(_)
MaxSeq(s) ==
    IF Len(s) = 1 THEN s[1]
    ELSE LET m == MaxSeq(Tail(s)) IN IF s[1] >= m THEN s[1] ELSE m

RECURSIVE MinSeq(_)
MinSeq(s) ==
    IF Len(s) = 1 THEN s[1]
    ELSE LET m == MinSeq(Tail(s)) IN IF s[1] <= m THEN s[1] ELSE m

\* Column names in file order: ascending for the first file, descending for
\* the second, so that the order of an intersection tells the tables apart.
RECURSIVE NamesAsc(_, _)
NamesAsc(S, i) ==
    IF i > Len(AllNames) THEN <<>>
    ELSE IF AllNames[i] \in S THEN <<AllNames[i]>> \o NamesAsc(S, i + 1)
    ELSE NamesAsc(S, i + 1)

RECURSIVE Reverse(_)
Reverse(s) == IF s = <<>> THEN <<>> ELSE Append(Reverse(Tail(s)), Head(s))

NameIdx(c) == CHOOSE i \in 1..Len(AllNames) : AllNames[i] = c

\* ------------------------------------------------------------ the inputs
Missing == [kind |-> "missing"]
Garbage == [kind |-> "unparseable"]
NoTable == [kind |-> "none"]

\* A cell of an object column: a string, opaque to the program.
Str == -1

\* What pd.read_csv(path, skiprows=[1]) yields for a parseable file: the
\* ordered column names, and per column the inferred dtype and the values.
\* A column that holds strings has dtype object; a table without data rows
\* has only object columns.  The inputs hold int64, float64 and object
\* columns; bool columns are not among them.
Cell(file, c, r) == (file * r + NameIdx(c)) % (MaxVal + 1)

Column(file, c, dt, n) ==
    [dtype |-> dt,
     values |-> IF dt = "object" THEN [r \in 1..n |-> Str]
                ELSE [r \in 1..n |-> Cell(file, c, r)]]

SchemaTables(file) ==
    { [kind |-> "table",
       cols |-> IF file = 1 THEN NamesAsc(DOMAIN dts, 1)
                ELSE Reverse(NamesAsc(DOMAIN dts, 1)),
       nrows |-> n,
       col |-> [c \in DOMAIN dts |-> Column(file, c, dts[c], n)]] :
        n \in 1..MaxRows,
        dts \in UNION {[S -> {"int64", "object"}] : S \in SUBSET Names} }
    \cup
    { [kind |-> "table",
       cols |-> IF file = 1 THEN NamesAsc(S, 1) ELSE Reverse(NamesAsc(S, 1)),
       nrows |-> 0,
       col |-> [c \in S |-> Column(file, c, "object", 0)]] :
        S \in SUBSET Names }

\* One-column tables for the statistics: the first file holds the cell
\* pattern, the second every choice of values.
ValueTables(file) ==
    IF file = 1
    THEN { [kind |-> "table", cols |-> <<"a">>, nrows |-> n,
            col |-> [c \in {"a"} |-> Column(1, c, "int64", n)]] :
             n \in 1..MaxRows }
    ELSE { [kind |-> "table", cols |-> <<"a">>, nrows |-> Len(v),
            col |-> [c \in {"a"} |-> [dtype |-> "float64", values |-> v]]] :
             v \in UNION {[1..k -> Vals] : k \in 1..MaxRows} }

IsTable(x) == x.kind = "table"

\* ------------------------------------------------------------- the state
VARIABLES
    fs,                 \* the two paths: Missing, Garbage or the table in it
    pc,                 \* position of the script
    error,              \* the exception raised last, "none" if none
    read_calls,         \* the files pd.read_csv was called on
    df1, df2,
    common_columns,
    numerical_columns,
    segment1, segment2,
    current_index,
    fig,                \* "none", "open" or "closed"
    axes,               \* what the two charts show
    suptitle,           \* the caption of the figure
    trail               \* the renders and callbacks so far, latest last
                        \* (the last TrailLen of them)

vars == <<fs, pc, error, read_calls, df1, df2, common_columns,
          numerical_columns, segment1, segment2, current_index, fig, axes,
          suptitle, trail>>

Blank == [col |-> "", data1 |-> <<>>, data2 |-> <<>>, diff |-> <<>>]
NoTitle == [col |-> ""]

FileNotFound == "FileNotFoundError: One or both CSV files not found"
NoNumerical == "ValueError: No numerical columns found in the data"
ParseError == "ParserError"
BroadcastError == "ValueError: operands could not be broadcast together"
OperandError == "TypeError: unsupported operand type(s) for -"
EmptyError == "ValueError: zero-size array"
IndexError == "IndexError: list index out of range"
RenderErrors == {BroadcastError, OperandError, EmptyError, IndexError}

\* The trail keeps one entry more than there are columns, and at least three.
TrailLen ==
    IF Len(numerical_columns) < 2 THEN 3 ELSE Len(numerical_columns) + 1

Logged(event, index) ==
    LET t == Append(trail, [event |-> event, index |-> index])
    IN  IF Len(t) > TrailLen THEN Tail(t) ELSE t

LastEvent == IF trail = <<>> THEN "none" ELSE trail[Len(trail)].event

\* The states from the creation of the figure on.
ViewerStages == {"first_plot", "wire", "show", "done"}

\* -------------------------------------------------------------- loader
os_path_exists(f) == fs[f] # Missing

FirstFileExists == os_path_exists(1)

FilesExist == os_path_exists(1) /\ os_path_exists(2)

\* pd.read_csv: the table, or the exception it raises.
read_csv(f) ==
    IF fs[f] = Missing THEN [raised |-> FileNotFound, table |-> NoTable]
    ELSE IF fs[f] = Garbage THEN [raised |-> ParseError, table |-> NoTable]
    ELSE [raised |-> "none", table |-> fs[f]]

\* Index.intersection: the names of the left index that the right one holds,
\* in the order of the left index.
Intersection(left, right) ==
    SelectSeq(left, LAMBDA c : c \in Range(right))

\* df[names]: the table restricted to the listed columns, in that order.
Restrict(df, names) ==
    [kind |-> "table", cols |-> names, nrows |-> df.nrows,
     col |-> [c \in Range(names) |-> df.col[c]]]

\* np.number covers the integer and floating point dtypes.
IsNumber(dt) == dt \in {"int64", "float64"}

select_all(df) == df.cols

\* df.select_dtypes(include=[np.number]).columns.tolist()
select_dtypes(df) ==
    SelectSeq(df.cols, LAMBDA c : IsNumber(df.col[c].dtype))

NeverEmpty(cols) == FALSE

\* "if not numerical_columns": the guard of the raise at line 35.
NotNumericalColumns(cols) == cols = <<>>

Abort(exc) ==
    /\ pc' = "error"
    /\ error' = exc

CheckFiles ==
    /\ pc = "check"
    /\ IF ~FilesExist THEN Abort(FileNotFound)
       ELSE pc' = "read1" /\ error' = error
    /\ UNCHANGED <<fs, read_calls, df1, df2, common_columns,
                   numerical_columns, segment1, segment2, current_index,
                   fig, axes, suptitle, trail>>

ReadFile1 ==
    /\ pc = "read1"
    /\ read_calls' = read_calls \cup {1}
    /\ LET r == read_csv(1) IN
         IF r.raised # "none" THEN Abort(r.raised) /\ df1' = df1
         ELSE pc' = "read2" /\ error' = error /\ df1' = r.table
    /\ UNCHANGED <<fs, df2, common_columns, numerical_columns, segment1,
                   segment2, current_index, fig, axes, suptitle, trail>>

ReadFile2 ==
    /\ pc = "read2"
    /\ read_calls' = read_calls \cup {2}
    /\ LET r == read_csv(2) IN
         IF r.raised # "none" THEN Abort(r.raised) /\ df2' = df2
         ELSE pc' = "align" /\ error' = error /\ df2' = r.table
    /\ UNCHANGED <<fs, df1, common_columns, numerical_columns, segment1,
                   segment2, current_index, fig, axes, suptitle, trail>>

Align ==
    /\ pc = "align"
    /\ common_columns' = Intersection(df1.cols, df2.cols)
    /\ df1' = Restrict(df1, common_columns')
    /\ df2' = Restrict(df2, common_columns')
    /\ pc' = "select"
    /\ UNCHANGED <<fs, error, read_calls, numerical_columns, segment1,
                   segment2, current_index, fig, axes, suptitle, trail>>

SelectNumerical ==
    /\ pc = "select"
    /\ numerical_columns' = select_dtypes(df1)
    /\ IF NotNumericalColumns(numerical_columns')
       THEN /\ Abort(NoNumerical)
            /\ UNCHANGED <<segment1, segment2>>
       ELSE /\ segment1' = Restrict(df1, numerical_columns')
            /\ segment2' = Restrict(df2, numerical_columns')
            /\ pc' = "figure"
            /\ error' = error
    /\ current_index' = 0
    /\ UNCHANGED <<fs, read_calls, df1, df2, common_columns, fig, axes,
                   suptitle, trail>>

\* -------------------------------------------------------------- viewer
\* numpy broadcasting of two one-dimensional arrays.
Broadcastable(n1, n2) == n1 = n2 \/ n1 = 1 \/ n2 = 1

BroadcastLen(n1, n2) == IF n1 = 1 THEN n2 ELSE n1

\* diff = data2 - data1 on ndarrays (a one-element array is stretched).
Diff(data1, data2) ==
    [i \in 1..BroadcastLen(Len(data1), Len(data2)) |->
        data2[IF Len(data2) = 1 THEN 1 ELSE i]
          - data1[IF Len(data1) = 1 THEN 1 ELSE i]]

\* diff.mean(): the sum over the count.
Mean(diff) == <<SumSeq(diff), Len(diff)>>

StdSquaredSample(diff) ==
    LET n == Len(diff)
        S == SumSeq(diff)
        sq == [i \in 1..n |-> (n * diff[i] - S) * (n * diff[i] - S)]
    IN  <<SumSeq(sq), n * n * (n - 1)>>

\* diff.std() squared.  ndarray.std subtracts the mean, squares, sums and
\* divides by n - ddof, with ddof = 0.  The deviations are scaled by n so
\* that they stay integers: sum((n*x - S)^2) / (n^2 * (n - 0)).
StdSquared(diff) ==
    LET n == Len(diff)
        S == SumSeq(diff)
        sq == [i \in 1..n |-> (n * diff[i] - S) * (n * diff[i] - S)]
    IN  <<SumSeq(sq), n * n * (n - 0)>>

\* update_plot(index): what the charts and the caption hold afterwards, and
\* the exception that ended it ("none" when plt.draw() was reached).
update_plot(index) ==
    LET n == Len(numerical_columns)
        \* a Python list takes the indices -n .. n-1
        col == numerical_columns[IF index < 0 THEN n + index + 1
                                 ELSE index + 1]
        data1 == segment1.col[col].values
        data2 == segment2.col[col].values
        n1 == Len(data1)
        n2 == Len(data2)
    IN  IF index >= n \/ index < -n
        THEN [axes |-> axes, suptitle |-> suptitle, raised |-> IndexError]
        ELSE IF ~Broadcastable(n1, n2)
        THEN [axes |-> Blank, suptitle |-> suptitle, raised |-> BroadcastError]
        ELSE IF BroadcastLen(n1, n2) = 0
        THEN [axes |-> [col |-> col, data1 |-> data1, data2 |-> data2,
                        diff |-> <<>>],
              suptitle |-> suptitle, raised |-> EmptyError]
        ELSE IF ~IsNumber(segment2.col[col].dtype)
        THEN [axes |-> Blank, suptitle |-> suptitle, raised |-> OperandError]
        ELSE LET diff == Diff(data1, data2) IN
             [axes |-> [col |-> col, data1 |-> data1, data2 |-> data2,
                        diff |-> diff],
              suptitle |-> [col |-> col,
                            mean_diff |-> Mean(diff),
                            std_diff_squared |-> StdSquared(diff),
                            max_diff |-> MaxSeq(diff),
                            min_diff |-> MinSeq(diff)],
              raised |-> "none"]

NextIndexClamped(i, n) == IF i + 1 >= n THEN i ELSE i + 1

\* (current_index + 1) % len(numerical_columns)
NextIndex(i, n) == (i + 1) % n

PrevIndexNoWrap(i, n) == i - 1

PrevIndexClamped(i, n) == IF i = 0 THEN 0 ELSE i - 1

\* (current_index - 1) % len(numerical_columns); Python's % takes the sign
\* of the divisor, as does TLA+'s.
PrevIndex(i, n) == (i - 1) % n

plt_close_noop(f) == f

\* plt.close(): the current figure is closed.
plt_close(f) == "closed"

CreateFigure ==
    /\ pc = "figure"
    /\ fig' = "open"
    /\ axes' = Blank
    /\ suptitle' = NoTitle
    /\ pc' = "first_plot"
    /\ UNCHANGED <<fs, error, read_calls, df1, df2, common_columns,
                   numerical_columns, segment1, segment2, current_index,
                   trail>>

\* line 118: an exception here ends the script.
FirstPlot ==
    /\ pc = "first_plot"
    /\ LET r == update_plot(current_index) IN
         /\ axes' = r.axes
         /\ suptitle' = r.suptitle
         /\ IF r.raised # "none" THEN Abort(r.raised)
            ELSE pc' = "wire" /\ error' = error
    /\ trail' = Logged("init", current_index)
    /\ UNCHANGED <<fs, read_calls, df1, df2, common_columns,
                   numerical_columns, segment1, segment2, current_index, fig>>

\* lines 121-135: the buttons are created and connected, plt.show() starts
\* the event loop.
ShowWindow ==
    /\ pc = "wire"
    /\ pc' = "show"
    /\ UNCHANGED <<fs, error, read_calls, df1, df2, common_columns,
                   numerical_columns, segment1, segment2, current_index, fig,
                   axes, suptitle, trail>>

\* A callback of the event loop.  An exception in a callback is printed by
\* matplotlib's callback registry and the loop goes on.
Redraw(event) ==
    LET r == update_plot(current_index') IN
      /\ axes' = r.axes
      /\ suptitle' = r.suptitle
      /\ error' = r.raised
      /\ trail' = Logged(event, current_index')
      /\ UNCHANGED <<fs, pc, read_calls, df1, df2, common_columns,
                     numerical_columns, segment1, segment2, fig>>

next_plot ==
    /\ pc = "show"
    /\ fig = "open"
    /\ current_index' = NextIndex(current_index, Len(numerical_columns))
    /\ Redraw("next")

prev_plot ==
    /\ pc = "show"
    /\ fig = "open"
    /\ current_index' = PrevIndex(current_index, Len(numerical_columns))
    /\ Redraw("prev")

\* plt.show() returns once no figure is open, and the script ends.
quit_plot ==
    /\ pc = "show"
    /\ fig = "open"
    /\ fig' = plt_close(fig)
    /\ pc' = IF fig' = "open" THEN "show" ELSE "done"
    /\ trail' = Logged("quit", current_index)
    /\ UNCHANGED <<fs, error, read_calls, df1, df2, common_columns,
                   numerical_columns, segment1, segment2, current_index,
                   axes, suptitle>>

\* ------------------------------------------------------- specification
\* The two files: two of the schema tables, or a path that does not exist,
\* or a file that does not parse; or two of the value tables.
Inputs ==
    ((SchemaTables(1) \cup {Missing, Garbage})
        \X (SchemaTables(2) \cup {Missing, Garbage}))
    \cup (ValueTables(1) \X ValueTables(2))

Init ==
    /\ fs \in Inputs
    /\ pc = "check"
    /\ error = "none"
    /\ read_calls = {}
    /\ df1 = NoTable
    /\ df2 = NoTable
    /\ common_columns = <<>>
    /\ numerical_columns = <<>>
    /\ segment1 = NoTable
    /\ segment2 = NoTable
    /\ current_index = 0
    /\ fig = "none"
    /\ axes = Blank
    /\ suptitle = NoTitle
    /\ trail = <<>>

Next ==
    \/ CheckFiles
    \/ ReadFile1
    \/ ReadFile2
    \/ Align
    \/ SelectNumerical
    \/ CreateFigure
    \/ FirstPlot
    \/ ShowWindow
    \/ next_plot
    \/ prev_plot
    \/ quit_plot

Spec == Init /\ [][Next]_vars

\* ---------------------------------------------------------- properties
LoaderStages == {"check", "read1", "read2", "align", "select"}

\* The Loader has handed its tables to the Viewer.
LoaderSucceeded == segment1 # NoTable

BothParsed == IsTable(fs[1]) /\ IsTable(fs[2])

SharedNames == Range(fs[1].cols) \cap Range(fs[2].cols)

NumericInFirst(c) == fs[1].col[c].dtype \in {"int64", "float64"}

FracEq(p, q) == p[2] # 0 /\ q[2] # 0 /\ p[1] * q[2] = q[1] * p[2]

\* The last call of update_plot reached plt.draw().
Rendered ==
    /\ pc \in {"wire", "show", "done"}
    /\ error = "none"
    /\ axes.col # ""

\* C1: once the Loader has succeeded, whatever Next / Previous clicks have
\* been processed, current_index is an integer in 0 .. N-1, N being the
\* number of numeric columns.
C1_CursorInRange ==
    LoaderSucceeded =>
        /\ Len(numerical_columns) >= 1
        /\ current_index \in 0..(Len(numerical_columns) - 1)

C1_Witness ==
    /\ LoaderSucceeded
    /\ Len(numerical_columns) >= 2
    /\ LastEvent = "prev"
    /\ current_index = Len(numerical_columns) - 1

\* C2: N consecutive Next clicks bring the cursor back to where it was, and
\* so do N consecutive Previous clicks; with three columns the first three
\* Next clicks show the indices 1, 2 and 0.
C2_FullCycleReturns ==
    LoaderSucceeded =>
        LET n == Len(numerical_columns)
            k == Len(trail)
        IN  /\ \A e \in {"next", "prev"} :
                  (k >= n + 1 /\ \A j \in (k - n + 1)..k : trail[j].event = e)
                      => trail[k].index = trail[k - n].index
            /\ (n = 3 /\ k = 4 /\ trail[1] = [event |-> "init", index |-> 0]
                  /\ \A j \in 2..4 : trail[j].event = "next")
                      => <<trail[2].index, trail[3].index, trail[4].index>>
                            = <<1, 2, 0>>

C2_Witness ==
    /\ Len(numerical_columns) = 3
    /\ Len(trail) = 4
    /\ trail[1].event = "init"
    /\ \A j \in 2..4 : trail[j].event = "next"
    /\ current_index = 0

\* C3: a Next click followed by a Previous click, or a Previous click
\* followed by a Next click, leaves the cursor where it was, at the ends of
\* the range and with a single column too.
C3_InverseClicks ==
    LoaderSucceeded =>
        LET k == Len(trail) IN
            (k >= 3 /\ <<trail[k - 1].event, trail[k].event>>
                          \in {<<"next", "prev">>, <<"prev", "next">>})
                => trail[k].index = trail[k - 2].index

C3_Witness ==
    /\ Len(numerical_columns) >= 2
    /\ Len(trail) >= 3
    /\ trail[Len(trail) - 1].event = "prev"
    /\ trail[Len(trail)].event = "next"
    /\ trail[Len(trail) - 2].index = 0
    /\ trail[Len(trail) - 1].index = Len(numerical_columns) - 1
    /\ current_index = 0

\* C4: when the Loader succeeds, numerical_columns holds exactly the names
\* that occur in both tables and are numeric in the first one, and there is
\* at least one; when there is none the Loader does not succeed.
C4_NumericalColumns ==
    /\ LoaderSucceeded =>
          /\ BothParsed
          /\ Range(numerical_columns) = {c \in SharedNames : NumericInFirst(c)}
          /\ Len(numerical_columns) = Cardinality(Range(numerical_columns))
          /\ numerical_columns # <<>>
    /\ (BothParsed /\ {c \in SharedNames : NumericInFirst(c)} = {})
          => /\ ~LoaderSucceeded
             /\ pc \in LoaderStages \cup {"error"}
             /\ (pc = "error" => error = NoNumerical)

C4_Witness ==
    /\ LoaderSucceeded
    /\ \E c \in SharedNames : ~NumericInFirst(c)
    /\ \E c \in Range(numerical_columns) : fs[2].col[c].dtype = "object"
    /\ Range(fs[1].cols) # Range(fs[2].cols)

\* C5 as stated: with no shared column name the Loader fails with an error of
\* its own, different from the one for "no numeric column", and no figure is
\* created.
EmptyIntersection == "ValueError: no common columns"

C5_DistinctEmptyIntersectionError ==
    (BothParsed /\ SharedNames = {}) =>
        /\ fig = "none"
        /\ trail = <<>>
        /\ pc \in LoaderStages \cup {"error"}
        /\ (pc = "error" => error = EmptyIntersection /\ error # NoNumerical)

\* C5 amended: with no shared column name the Loader fails with the error
\* "No numerical columns found in the data", the same one as for shared
\* columns none of which is numeric; no figure is created, nothing is
\* rendered and the event loop is not entered.
C5_DisjointFailsAsNoNumerical ==
    (BothParsed /\ SharedNames = {}) =>
        /\ fig = "none"
        /\ trail = <<>>
        /\ ~LoaderSucceeded
        /\ pc \in LoaderStages \cup {"error"}
        /\ (pc = "error" => error = NoNumerical)

C5_Witness ==
    /\ BothParsed
    /\ SharedNames = {}
    /\ fs[1].cols # <<>>
    /\ fs[2].cols # <<>>
    /\ \E c \in Range(fs[1].cols) : NumericInFirst(c)
    /\ pc = "error"
    /\ error = NoNumerical

\* C6: if one of the two paths does not exist, FileNotFoundError is raised
\* before read_csv is called on either file; no table is loaded and no
\* figure is created.
C6_MissingInputBeforeParse ==
    (fs[1] = Missing \/ fs[2] = Missing) =>
        /\ read_calls = {}
        /\ df1 = NoTable
        /\ df2 = NoTable
        /\ fig = "none"
        /\ trail = <<>>
        /\ pc \in {"check", "error"}
        /\ (pc = "error" => error = FileNotFound)

C6_Witness ==
    /\ IsTable(fs[1])
    /\ fs[2] = Missing
    /\ pc = "error"
    /\ error = FileNotFound

\* C7 as stated: once the Loader has succeeded, the two series of every
\* column of numerical_columns have the same length and are both numeric,
\* and no render raises.
C7_NoErrorAfterLoad ==
    LoaderSucceeded =>
        /\ \A c \in Range(numerical_columns) :
              /\ Len(segment1.col[c].values) = Len(segment2.col[c].values)
              /\ IsNumber(segment2.col[c].dtype)
        /\ error = "none"

\* C8: after the Quit callback no callback is processed any more: the
\* cursor, the charts and the caption never change again.
C8_NothingAfterQuit ==
    [][LastEvent = "quit" =>
          UNCHANGED <<current_index, axes, suptitle, trail>>]_vars

C8_Witness ==
    /\ LastEvent = "quit"
    /\ pc = "done"
    /\ fig = "closed"
    /\ Len(trail) >= 2

\* The parts of C9 on which the statement and the amended statement agree:
\* the difference at every row index that both series have, the mean, the
\* maximum and the minimum.
C9_Common(d1, d2, diff) ==
    /\ d1 = axes.data1 /\ d2 = axes.data2
    /\ Len(diff) >= 1
    /\ \A i \in 1..Len(diff) :
          (i <= Len(d1) /\ i <= Len(d2)) => diff[i] = d2[i] - d1[i]
    /\ suptitle.col = axes.col
    /\ FracEq(suptitle.mean_diff, <<SumSeq(diff), Len(diff)>>)
    /\ suptitle.max_diff \in Range(diff)
    /\ \A x \in Range(diff) : x <= suptitle.max_diff
    /\ suptitle.min_diff \in Range(diff)
    /\ \A x \in Range(diff) : x >= suptitle.min_diff

SumOfSquares(diff) == SumSeq([i \in 1..Len(diff) |-> diff[i] * diff[i]])

\* n * sum(x^2) - sum(x)^2: n^2 times the population variance, n * (n - 1)
\* times the sample variance.
ScaledVariance(diff) ==
    Len(diff) * SumOfSquares(diff) - SumSeq(diff) * SumSeq(diff)

\* C9 as stated: diff[i] = data2[i] - data1[i] for every row index, and the
\* caption shows the mean, the sample standard deviation (divisor n - 1),
\* the maximum and the minimum of diff.  (With a single row the sample
\* standard deviation is undefined and nothing is asked of the caption.)
C9_SampleStd ==
    Rendered =>
        LET diff == axes.diff
            n == Len(diff)
        IN  /\ C9_Common(fs[1].col[axes.col].values,
                         fs[2].col[axes.col].values, diff)
            /\ n >= 2 =>
                  FracEq(suptitle.std_diff_squared,
                         <<ScaledVariance(diff), n * (n - 1)>>)

\* C9 amended: diff[i] = data2[i] - data1[i] for every row index i that both
\* series have, and the caption shows the mean, the population standard
\* deviation (divisor n, n the length of diff), the maximum and the minimum
\* of diff.
C9_PopulationStd ==
    Rendered =>
        LET diff == axes.diff
            n == Len(diff)
        IN  /\ C9_Common(fs[1].col[axes.col].values,
                         fs[2].col[axes.col].values, diff)
            /\ FracEq(suptitle.std_diff_squared,
                      <<ScaledVariance(diff), n * n>>)

C9_Witness ==
    /\ Rendered
    /\ Len(axes.diff) = 3
    /\ Len(axes.data1) = 3
    /\ Len(axes.data2) = 3
    /\ suptitle.max_diff > suptitle.min_diff
    /\ suptitle.min_diff < 0

\* C10 as stated: the first render shows column 0 before any callback runs,
\* and between callbacks the charts and the caption show the column at
\* current_index.
C10_DisplayFollowsCursor ==
    /\ pc = "wire" => current_index = 0 /\ LastEvent = "init"
    /\ pc \in {"wire", "show"} =>
          /\ axes.col = numerical_columns[current_index + 1]
          /\ suptitle.col = numerical_columns[current_index + 1]

====
